---- MODULE Spec2Model ----
(***************************************************************************)
(* Model of the external scanner of the rune grammar                       *)
(* (grammar/src/scanner.c): a line classifier called by the tree-sitter    *)
(* host at a cursor over the source text.  Characters are code points      *)
(* (int32_t lookahead); the line buffer holds chars (code point mod 256).  *)
(***************************************************************************)
EXTENDS Integers, Sequences, FiniteSets, TLC

\* ---------------------------------------------------------------- bounds
MaxIndent == 7      \* leading spaces of a generated line: 0..MaxIndent
MaxBody   == 3      \* exhaustive code-shaped bodies after the first letter
MaxStart  == 2      \* cursor positions 1..MaxStart at which the host calls
MaxRetry  == 1      \* speculative re-invocations of one call by the host

\* ------------------------------------------------- program constants
TYP_DESC   == 0
DTO_DESC   == 1
NON_DESC   == 2
FAULT_LINE == 3

SP       == 32
LF       == 10
CR       == 13
EOF_CH   == 0
LOWER_A  == 97
LOWER_Z  == 122
DIGIT_0  == 48
DIGIT_9  == 57
HYPHEN   == 45
DOT      == 46
LPAREN   == 40
COLON    == 58
CH_r     == 114
CH_e     == 101
CH_t     == 116
CH_u     == 117
CH_n     == 110
BUF_SIZE == 256     \* char buf[256]
BUF_MAX  == 255     \* buf_len < 255
FAULT_MIN_SPACES == 6
DESC_SPACES == 4

NULL  == "NULL"
Kinds == {TYP_DESC, DTO_DESC, NON_DESC, FAULT_LINE}
\* lexer->result_symbol before the scanner writes it: no kind of the enum
NoSym == Cardinality(Kinds)
DescKinds == {TYP_DESC, DTO_DESC, NON_DESC}

\* ------------------------------------------------------------- helpers
Min(S) == CHOOSE x \in S : \A y \in S : x <= y
Max(S) == CHOOSE x \in S : \A y \in S : x >= y

\* (char)lexer->lookahead : an int32_t code point narrowed to one byte.  With
\* a signed char the bytes 128..255 are negative instead; either way they
\* equal none of the ASCII characters the scanner compares the buffer with.
ToChar(c) == c % 256

\* lexer->lookahead at cursor position c (1-based); 0 at end of input
lookahead_at(t, c) == IF c <= Len(t) THEN t[c] ELSE EOF_CH

\* lexer->get_column: characters since the last line feed before c
get_column(t, c) == (c - 1) - Max({0} \cup {i \in 1..(c - 1) : i <= Len(t) /\ t[i] = LF})

\* the column test written as >= 0
is_at_line_start_any(t, c) == get_column(t, c) >= 0
\* lexer->get_column(lexer) == 0
is_at_line_start(t, c) == get_column(t, c) = 0

is_lower(ch) == ch >= LOWER_A /\ ch <= LOWER_Z

\* -------------------------------------------------------- looks_like_code
\* the for loop of looks_like_code, i is 1-based
RECURSIVE lc_loop(_, _, _)
lc_loop(buf, i, has_dot) ==
  IF i > Len(buf) THEN FALSE
  ELSE IF buf[i] = DOT THEN lc_loop(buf, i + 1, TRUE)
  ELSE IF buf[i] = LPAREN /\ has_dot THEN TRUE
  ELSE IF buf[i] = COLON /\ ~has_dot THEN TRUE
  ELSE lc_loop(buf, i + 1, has_dot)

\* looks_like_code with the colon test not guarded by !has_dot
looks_like_code_anycolon(buf) ==
  IF Len(buf) >= 3 /\ buf[3] = COLON THEN TRUE
  ELSE IF Len(buf) >= 7 /\ SubSeq(buf, 1, 7) = <<CH_r, CH_e, CH_t, CH_u, CH_r, CH_n, LPAREN>>
       THEN TRUE
  ELSE lc_loop(buf, 1, FALSE) \/ \E i \in 1..Len(buf) : buf[i] = COLON

looks_like_code(buf) ==
  IF Len(buf) >= 3 /\ buf[3] = COLON THEN TRUE
  ELSE IF Len(buf) >= 7 /\ buf[1] = CH_r /\ buf[2] = CH_e /\ buf[3] = CH_t
          /\ buf[4] = CH_u /\ buf[5] = CH_r /\ buf[6] = CH_n /\ buf[7] = LPAREN
       THEN TRUE
  ELSE lc_loop(buf, 1, FALSE)

\* -------------------------------------------------------- is_fault_content
RECURSIVE fc_loop(_, _, _)
fc_loop(buf, i, has_word_char) ==
  IF i > Len(buf) THEN has_word_char
  ELSE IF buf[i] >= LOWER_A /\ buf[i] <= LOWER_Z THEN fc_loop(buf, i + 1, TRUE)
  ELSE IF buf[i] >= DIGIT_0 /\ buf[i] <= DIGIT_9 THEN fc_loop(buf, i + 1, has_word_char)
  ELSE IF buf[i] = HYPHEN THEN fc_loop(buf, i + 1, has_word_char)
  ELSE IF buf[i] = SP THEN fc_loop(buf, i + 1, has_word_char)
  ELSE FALSE

is_fault_content(buf) ==
  IF Len(buf) = 0 THEN FALSE ELSE fc_loop(buf, 1, FALSE)

\* ------------------------------------------------------------ the inputs
Spaces(n) == [i \in 1..n |-> SP]
Fill(n)   == [i \in 1..n |-> LOWER_A]

RECURSIVE SeqsUpTo(_, _)
SeqsUpTo(A, n) ==
  IF n = 0 THEN {<<>>}
  ELSE LET S == SeqsUpTo(A, n - 1)
       IN  S \cup {Append(s, a) : s \in {x \in S : Len(x) = n - 1}, a \in A}

\* characters that decide looks_like_code
CodeAlpha == {LOWER_A, DOT, LPAREN, COLON}
\* other characters: fault-line classes, their neighbours, terminators, tab,
\* NUL, and code points above 255 whose low byte is an ASCII character
\* (U+0161 -> 'a', U+013A -> ':', U+0128 -> '(', U+012E -> '.', U+0100 -> NUL,
\* U+00E1 has its high bit set)
OtherChars == {SP, DIGIT_0, DIGIT_9, HYPHEN, LOWER_Z, LF, CR, EOF_CH,
               65, 90, 96, 123, 47, 9, 353, 314, 296, 302, 256, 225}

Return6 == <<CH_r, CH_e, CH_t, CH_u, CH_r, CH_n>>

ShortContents ==
     {<<LOWER_A>> \o b : b \in SeqsUpTo(CodeAlpha, MaxBody)}
  \cup {<<>>}
  \cup {<<c>> : c \in OtherChars \cup CodeAlpha}
  \cup {<<LOWER_A, c>> : c \in OtherChars}
  \cup {<<LOWER_A, LOWER_A, c>> : c \in OtherChars}
  \cup {<<LOWER_A, c, LOWER_A>> : c \in {SP, DIGIT_0, HYPHEN, LF, CR, 65, 353}}
  \cup {<<DIGIT_0, LOWER_A>>, <<HYPHEN, LOWER_A>>, <<LOWER_Z, DOT, LPAREN>>}
  \cup {Return6, Return6 \o <<LPAREN>>, Return6 \o <<LPAREN, LOWER_A>>,
        Return6 \o <<LOWER_A, LPAREN>>, SubSeq(Return6, 1, 5) \o <<LPAREN, LOWER_A>>,
        Return6 \o <<DOT>>}

\* contents around the buffer bound: a head, filling up to n characters, a tail
LongHeads == {<<LOWER_A>>, <<LOWER_A, DOT>>}
LongTails == {<<>>, <<LPAREN>>, <<COLON>>, <<65>>, <<LF, LOWER_A>>}
LongContents ==
  {h \o Fill(n - Len(h)) \o t :
      h \in LongHeads, n \in {BUF_MAX - 1, BUF_MAX, BUF_MAX + 1}, t \in LongTails}

ShortTexts == {Spaces(n) \o c : n \in 0..MaxIndent, c \in ShortContents}
LongTexts  == {Spaces(n) \o c : n \in {DESC_SPACES, FAULT_MIN_SPACES}, c \in LongContents}
\* a line that is not the first of the text
SecondLines == {<<LOWER_A, LF>> \o Spaces(n) \o c :
                  n \in {DESC_SPACES, FAULT_MIN_SPACES},
                  c \in {<<LOWER_A, SP, LOWER_A>>, <<LOWER_A, COLON>>, <<LOWER_A, 65>>}}
Texts == ShortTexts \cup LongTexts \cup SecondLines

\* a cursor is never beyond the end of input
Starts(t) ==
  {c \in 1..MaxStart : c <= Len(t) + 1} \cup (IF t \in SecondLines THEN {3} ELSE {})

\* -------------------------------------------------------------- the state
VARIABLES
  text,           \* the source text, a sequence of code points
  start,          \* cursor position at which the host calls the scanner
  cursor,         \* the lexer's position (lexer->advance moves it by one)
  valid_symbols,  \* [Kinds -> BOOLEAN], the requested kinds
  pc,             \* position inside tree_sitter_rune_external_scanner_scan
  spaces,         \* int spaces
  buf,            \* buf[0 .. buf_len-1], buf_len = Len(buf)
  last_write,     \* highest index of buf written in this call, -1 if none
  result,         \* the return value of scan
  result_symbol,  \* lexer->result_symbol
  payload,        \* the handle returned by create
  ser_len,        \* bytes written by the last serialize
  prev,           \* <<decision>> of the call the host discarded, <<>> if none
  edited,         \* the host changed the text behind the judged part
  retries

vars == <<text, start, cursor, valid_symbols, pc, spaces, buf, last_write,
          result, result_symbol, payload, ser_len, prev, edited, retries>>

lookahead == lookahead_at(text, cursor)

tree_sitter_rune_external_scanner_create == NULL
tree_sitter_rune_external_scanner_serialize(p) == 0

Init ==
  /\ text \in Texts
  /\ start \in Starts(text)
  /\ cursor = start
  /\ valid_symbols = [k \in Kinds |-> FALSE]
  /\ pc = "idle"
  /\ spaces = 0
  /\ buf = <<>>
  /\ last_write = -1
  /\ result = FALSE
  /\ result_symbol = NoSym
  /\ payload = tree_sitter_rune_external_scanner_create
  /\ ser_len = 0
  /\ prev = <<>>
  /\ edited = FALSE
  /\ retries = 0

want_typ_desc   == valid_symbols[TYP_DESC]
want_dto_desc   == valid_symbols[DTO_DESC]
want_non_desc   == valid_symbols[NON_DESC]
want_fault_line == valid_symbols[FAULT_LINE]

\* int spaces = 0, as a static that keeps its value between calls
initial_spaces_static(old) == old
\* int spaces = 0
initial_spaces(old) == 0

\* spaces >= 6
fault_depth(n) == n >= FAULT_MIN_SPACES

\* spaces != 4 written as spaces < 4
description_depth_atleast(n) == n >= DESC_SPACES
\* !(spaces != 4)
description_depth(n) == n = DESC_SPACES

\* the collect loop's condition without the '\r' test
line_continues_nocr(ch, buf_len) ==
  ch # LF /\ ch # EOF_CH /\ buf_len < BUF_MAX
\* the collect loop's condition with the bound off by one
line_continues_offbyone(ch, buf_len) ==
  ch # LF /\ ch # CR /\ ch # EOF_CH /\ buf_len <= BUF_MAX
\* lookahead != '\n' && lookahead != '\r' && lookahead != 0 && buf_len < 255
line_continues(ch, buf_len) ==
  ch # LF /\ ch # CR /\ ch # EOF_CH /\ buf_len < BUF_MAX

\* the priority with DTO_DESC tested first
select_kind_dtofirst(v) ==
  IF v[DTO_DESC] THEN DTO_DESC ELSE IF v[TYP_DESC] THEN TYP_DESC ELSE NON_DESC
\* Prefer TYP_DESC > DTO_DESC > NON_DESC
select_kind(v) ==
  IF v[TYP_DESC] THEN TYP_DESC ELSE IF v[DTO_DESC] THEN DTO_DESC ELSE NON_DESC

\* return r from scan
Return(r) ==
  /\ pc' = "done"
  /\ result' = r

\* ------------------------------------------------------------- the host
\* the host offers the call with the kinds the grammar allows here
HostCall ==
  /\ pc = "idle"
  /\ valid_symbols' \in [Kinds -> BOOLEAN]
  /\ pc' = "entry"
  /\ cursor' = start
  /\ result_symbol' = NoSym
  /\ UNCHANGED <<text, start, spaces, buf, last_write, result, payload, ser_len,
                 prev, edited, retries>>

Decision == [accept |-> result, kind |-> result_symbol, consumed |-> cursor - start]

\* the host discards the attempt, restores the cursor (the scanner state it
\* saved is what serialize wrote) and calls again with the same kinds
HostRetry ==
  /\ pc = "done"
  /\ retries < MaxRetry
  /\ retries' = retries + 1
  /\ ser_len' = tree_sitter_rune_external_scanner_serialize(payload)
  /\ prev' = <<Decision>>
  /\ edited' = FALSE
  /\ cursor' = start
  /\ result_symbol' = NoSym
  /\ pc' = "entry"
  /\ UNCHANGED <<text, start, valid_symbols, spaces, buf, last_write, result, payload>>

\* number of consecutive spaces of t from position s
LeadingSpaces(t, s) == Min({i \in s..(Len(t) + 1) : lookahead_at(t, i) # SP}) - s

\* t and u agree on everything up to the 255th content character of the line
\* at s, and both lines reach that far
SameJudged(t, u, s) ==
  LET n == (s - 1) + LeadingSpaces(t, s) + BUF_MAX
  IN  Len(t) >= n /\ Len(u) >= n /\ SubSeq(t, 1, n) = SubSeq(u, 1, n)

\* the host discards the attempt, the text behind the first 255 content
\* characters of the line is edited, and the host calls again
HostEdit ==
  /\ pc = "done"
  /\ retries < MaxRetry
  /\ text \in LongTexts
  /\ text' \in {u \in LongTexts : u # text /\ SameJudged(text, u, start)}
  /\ retries' = retries + 1
  /\ ser_len' = tree_sitter_rune_external_scanner_serialize(payload)
  /\ prev' = <<Decision>>
  /\ edited' = TRUE
  /\ cursor' = start
  /\ result_symbol' = NoSym
  /\ pc' = "entry"
  /\ UNCHANGED <<start, valid_symbols, spaces, buf, last_write, result, payload>>

\* ------------------------------------------------------------- the scan
\* lines 91-106: the entry guard
ScanEntry ==
  /\ pc = "entry"
  /\ buf' = <<>>
  /\ last_write' = -1
  /\ IF ~want_typ_desc /\ ~want_dto_desc /\ ~want_non_desc /\ ~want_fault_line
     THEN Return(FALSE) /\ UNCHANGED spaces
     ELSE IF ~is_at_line_start(text, cursor)
     THEN Return(FALSE) /\ UNCHANGED spaces
     ELSE /\ spaces' = initial_spaces(spaces)
          /\ pc' = "count"
          /\ UNCHANGED result
  /\ UNCHANGED <<text, start, cursor, valid_symbols, result_symbol, payload,
                 ser_len, prev, edited, retries>>

\* lines 107-110: one turn of the space-counting loop
CountSpaces ==
  /\ pc = "count"
  /\ lookahead = SP
  /\ cursor' = cursor + 1
  /\ spaces' = spaces + 1
  /\ UNCHANGED <<text, start, valid_symbols, pc, buf, last_write, result,
                 result_symbol, payload, ser_len, prev, edited, retries>>

\* lines 113-118: the fault-line branch and its first-character test
FaultPath ==
  /\ pc = "count"
  /\ lookahead # SP
  /\ want_fault_line /\ fault_depth(spaces)
  /\ pc' = IF is_lower(lookahead) THEN "fault_collect" ELSE "fault_reject"
  /\ UNCHANGED <<text, start, cursor, valid_symbols, spaces, buf, last_write,
                 result, result_symbol, payload, ser_len, prev, edited, retries>>

\* lines 120-124: one turn of the collect loop
FaultCollect ==
  /\ pc = "fault_collect"
  /\ line_continues(lookahead, Len(buf))
  /\ buf' = Append(buf, ToChar(lookahead))
  /\ last_write' = Len(buf)
  /\ cursor' = cursor + 1
  /\ UNCHANGED <<text, start, valid_symbols, pc, spaces, result, result_symbol,
                 payload, ser_len, prev, edited, retries>>

\* the fault check with the symbol assigned before the validation
FaultCheck_symbolfirst ==
  /\ pc = "fault_collect"
  /\ ~line_continues(lookahead, Len(buf))
  /\ last_write' = Len(buf)
  /\ result_symbol' = FAULT_LINE
  /\ IF is_fault_content(buf)
     THEN Return(TRUE)
     ELSE pc' = "fault_reject" /\ UNCHANGED result
  /\ UNCHANGED <<text, start, cursor, valid_symbols, spaces, buf, payload,
                 ser_len, prev, edited, retries>>

\* lines 125-130: terminate the buffer, validate, report FAULT_LINE
FaultCheck ==
  /\ pc = "fault_collect"
  /\ ~line_continues(lookahead, Len(buf))
  /\ last_write' = Len(buf)
  /\ IF is_fault_content(buf)
     THEN result_symbol' = FAULT_LINE /\ Return(TRUE)
     ELSE pc' = "fault_reject" /\ UNCHANGED <<result, result_symbol>>
  /\ UNCHANGED <<text, start, cursor, valid_symbols, spaces, buf, payload,
                 ser_len, prev, edited, retries>>

\* the fault branch without its return: control reaches the description
\* path behind the depth test
FaultReject_fallthrough ==
  /\ pc = "fault_reject"
  /\ pc' = IF (want_typ_desc \/ want_dto_desc \/ want_non_desc) /\ is_lower(lookahead)
           THEN "desc_collect" ELSE "done"
  /\ result' = FALSE
  /\ buf' = <<>>
  /\ UNCHANGED <<text, start, cursor, valid_symbols, spaces, last_write,
                 result_symbol, payload, ser_len, prev, edited, retries>>

\* line 133: return false
FaultReject ==
  /\ pc = "fault_reject"
  /\ Return(FALSE)
  /\ UNCHANGED <<text, start, cursor, valid_symbols, spaces, buf, last_write,
                 result_symbol, payload, ser_len, prev, edited, retries>>

\* lines 137-152: depth, requested kinds and first character of a description
DescGuards ==
  /\ pc = "count"
  /\ lookahead # SP
  /\ ~(want_fault_line /\ fault_depth(spaces))
  /\ IF ~description_depth(spaces)
     THEN Return(FALSE)
     ELSE IF ~want_typ_desc /\ ~want_dto_desc /\ ~want_non_desc
     THEN Return(FALSE)
     ELSE IF lookahead < LOWER_A \/ lookahead > LOWER_Z
     THEN Return(FALSE)
     ELSE pc' = "desc_collect" /\ UNCHANGED result
  /\ UNCHANGED <<text, start, cursor, valid_symbols, spaces, buf, last_write,
                 result_symbol, payload, ser_len, prev, edited, retries>>

\* lines 155-159: one turn of the collect loop
DescCollect ==
  /\ pc = "desc_collect"
  /\ line_continues(lookahead, Len(buf))
  /\ buf' = Append(buf, ToChar(lookahead))
  /\ last_write' = Len(buf)
  /\ cursor' = cursor + 1
  /\ UNCHANGED <<text, start, valid_symbols, pc, spaces, result, result_symbol,
                 payload, ser_len, prev, edited, retries>>

\* lines 160-175: terminate the buffer, reject code, report by priority
DescDecide ==
  /\ pc = "desc_collect"
  /\ ~line_continues(lookahead, Len(buf))
  /\ last_write' = Len(buf)
  /\ IF looks_like_code(buf)
     THEN Return(FALSE) /\ UNCHANGED result_symbol
     ELSE result_symbol' = select_kind(valid_symbols) /\ Return(TRUE)
  /\ UNCHANGED <<text, start, cursor, valid_symbols, spaces, buf, payload,
                 ser_len, prev, edited, retries>>

tree_sitter_rune_external_scanner_scan ==
  \/ ScanEntry
  \/ CountSpaces
  \/ FaultPath
  \/ FaultCollect
  \/ FaultCheck
  \/ FaultReject
  \/ DescGuards
  \/ DescCollect
  \/ DescDecide

Next ==
  \/ HostCall
  \/ HostRetry
  \/ HostEdit
  \/ tree_sitter_rune_external_scanner_scan

Spec == Init /\ [][Next]_vars

\* ------------------------------------------------ vocabulary of the claims
Terminators == {LF, CR, EOF_CH}
Returned    == pc = "done"
AtColumn0   == get_column(text, start) = 0
WantAny     == \E k \in Kinds : valid_symbols[k]
WantDesc    == \E k \in DescKinds : valid_symbols[k]
Indent      == LeadingSpaces(text, start)
ContentFrom == start + Indent
First       == lookahead_at(text, ContentFrom)
\* first terminator (or end of input) at or after position from
LineEnd(t, from) == Min({i \in from..(Len(t) + 1) : lookahead_at(t, i) \in Terminators})
\* the characters of the line the collect loop takes: at most 255
Content ==
  SubSeq(text, ContentFrom, Min({LineEnd(text, ContentFrom) - 1, ContentFrom + BUF_MAX - 1}))
\* the same characters as the buffer stores them
Bytes(c) == [i \in 1..Len(c) |-> c[i] % 256]
FaultChars == (LOWER_A..LOWER_Z) \cup (DIGIT_0..DIGIT_9) \cup {HYPHEN, SP}
HasCodeShape(c) ==
  \/ Len(c) >= 3 /\ c[3] = COLON
  \/ Len(c) >= 7 /\ SubSeq(c, 1, 7) = Return6 \o <<LPAREN>>
  \/ \E j \in 1..Len(c) : c[j] = LPAREN /\ \E i \in 1..(j - 1) : c[i] = DOT
  \/ \E j \in 1..Len(c) : c[j] = COLON /\ \A i \in 1..(j - 1) : c[i] # DOT

\* C1: called at a column other than 0, scan returns false, reports no kind
\* and never advances the cursor, whatever kinds are requested.
C1_NotAtLineStartRejects ==
  (pc # "idle" /\ ~AtColumn0) =>
     /\ cursor = start
     /\ result_symbol = NoSym
     /\ pc \in {"entry", "done"}
     /\ (Returned => result = FALSE)
C1_Witness ==
  Returned /\ ~AtColumn0 /\ WantAny /\ lookahead_at(text, start) = SP /\ result = FALSE

\* C2: at column 0 with a description kind requested, scan reports a
\* description kind exactly when the line has exactly 4 leading spaces, a
\* lowercase letter after them, and looks_like_code is false on the
\* collected content.
C2_DescriptionIff ==
  (Returned /\ AtColumn0 /\ WantDesc) =>
     ((result /\ result_symbol \in DescKinds)
        <=> (Indent = 4 /\ is_lower(First) /\ ~looks_like_code(Bytes(Content))))
C2_Witness ==
  Returned /\ AtColumn0 /\ want_fault_line /\ result /\ result_symbol \in DescKinds
    /\ Indent = 4 /\ Len(Content) > 1

\* C3: when the description path succeeds the reported kind is requested
\* and no requested description kind has a higher priority
\* (TYP_DESC > DTO_DESC > NON_DESC), FAULT_LINE requested or not.
Priority == <<TYP_DESC, DTO_DESC, NON_DESC>>
C3_PriorityOrder ==
  (Returned /\ result /\ ~(want_fault_line /\ Indent >= 6)) =>
     \E p \in 1..3 :
        /\ result_symbol = Priority[p]
        /\ valid_symbols[Priority[p]]
        /\ \A q \in 1..(p - 1) : ~valid_symbols[Priority[q]]
C3_Witness ==
  Returned /\ result /\ ~want_typ_desc /\ want_dto_desc /\ want_non_desc
    /\ want_fault_line /\ result_symbol = DTO_DESC

\* C4: at column 0 with FAULT_LINE requested and 6 or more leading spaces,
\* scan reports FAULT_LINE exactly when the first character is a lowercase
\* letter and every collected character of the line is one of a-z, 0-9,
\* '-', ' '.
C4_FaultLineIff ==
  (Returned /\ AtColumn0 /\ want_fault_line /\ Indent >= 6) =>
     ((result /\ result_symbol = FAULT_LINE)
        <=> (is_lower(First) /\ \A i \in 1..Len(Content) : Content[i] \in FaultChars))

\* C5: a 4-space line starting with a lowercase letter is rejected when its
\* content has one of the four code shapes, and looks_like_code is false
\* (the line is accepted) when the collected content has none of them.
C5_CodeShapes ==
  (Returned /\ AtColumn0 /\ WantDesc /\ Indent = 4 /\ is_lower(First)) =>
     /\ HasCodeShape(Content) => ~result
     /\ ~HasCodeShape(Bytes(Content)) => (result /\ ~looks_like_code(buf))
C5_Witness ==
  Returned /\ AtColumn0 /\ WantDesc /\ Indent = 4 /\ is_lower(First) /\ ~result
    /\ Len(Content) = 4 /\ Content[2] = DOT /\ Content[4] = COLON

\* C6: with FAULT_LINE requested and 6 or more leading spaces, a line that
\* does not start with a lowercase letter or fails is_fault_content is
\* rejected and no description kind is reported, even if requested.
C6_NoFallThrough ==
  (Returned /\ AtColumn0 /\ want_fault_line /\ Indent >= 6
     /\ ~(is_lower(First) /\ is_fault_content(Bytes(Content)))) =>
     (~result /\ result_symbol = NoSym)
C6_Witness ==
  Returned /\ AtColumn0 /\ want_fault_line /\ want_typ_desc /\ Indent >= 6
    /\ is_lower(First) /\ ~is_fault_content(Bytes(Content))
    /\ ~looks_like_code(Bytes(Content)) /\ ~result

\* C7: on a match the cursor stands at start + indentation + content
\* length, no terminator was consumed, and the cursor is on a terminator
\* or exactly 255 characters were collected.
C7_ConsumedSpan ==
  (Returned /\ result) =>
     /\ cursor = start + Indent + Len(Content)
     /\ cursor = start + spaces + Len(buf)
     /\ \A i \in start..(cursor - 1) : text[i] \notin Terminators
     /\ (lookahead \in Terminators \/ Len(buf) = BUF_MAX)
C7_Witness ==
  Returned /\ result /\ Len(buf) = BUF_MAX /\ lookahead \notin Terminators /\ Indent >= 6

\* C8: a call repeated from the same cursor position over the same text
\* with the same kinds gives the same decision; create returns an empty
\* handle and serialize writes no byte.
C8_Deterministic ==
  /\ payload = NULL
  /\ ser_len = 0
  /\ (Returned /\ prev # <<>> /\ ~edited) => prev[1] = Decision
C8_Witness ==
  Returned /\ prev # <<>> /\ ~edited /\ result /\ cursor > start + 4

\* C9 as claimed: on no-match the cursor is where the call began and no
\* kind is reported.
C9_RejectRestoresCursor ==
  (Returned /\ ~result) => (cursor = start /\ result_symbol = NoSym)

\* C9 amended: on no-match no kind is reported; the cursor is where the call
\* began if the entry guard rejected, and otherwise past the leading spaces
\* and past the content collected before the rejection.
EntryRejects == ~WantAny \/ ~AtColumn0
Collects ==
  is_lower(First) /\ ((want_fault_line /\ Indent >= 6) \/ (Indent = 4 /\ WantDesc))
C9_RejectNoKindForwardOnly ==
  (Returned /\ ~result) =>
     /\ result_symbol = NoSym
     /\ cursor = start + (IF EntryRejects THEN 0
                          ELSE Indent + (IF Collects THEN Len(Content) ELSE 0))
C9_Witness ==
  Returned /\ ~result /\ ~EntryRejects /\ Collects /\ cursor > start + Indent + 1

\* C10: the buffer never holds more than 255 characters and no write goes
\* past slot 255; a call repeated after the text behind the first 255
\* content characters changed gives the same decision; every call returns:
\* each step of the scan, and so each turn of its loops, lowers a rank that
\* is a natural number (characters left to read, then position in the code).
PcRank ==
  CASE pc = "entry" -> 4
    [] pc = "count" -> 3
    [] pc \in {"fault_collect", "desc_collect"} -> 2
    [] pc = "fault_reject" -> 1
    [] OTHER -> 0
Rank == 5 * ((Len(text) + 1) - cursor) + PcRank
C10_Inv ==
  /\ Len(buf) <= BUF_MAX
  /\ last_write < BUF_SIZE
  /\ (Returned /\ prev # <<>> /\ edited) => prev[1] = Decision
  /\ Rank >= 0
C10_BoundedBuffer ==
  /\ []C10_Inv
  /\ [][tree_sitter_rune_external_scanner_scan => Rank' < Rank]_vars
C10_Witness ==
  Returned /\ prev # <<>> /\ edited /\ Len(buf) = BUF_MAX /\ last_write = BUF_MAX
    /\ lookahead = LPAREN /\ result

====
